---------------------------- MODULE Spec2Model ----------------------------
(***************************************************************************)
(* A model of the VE.Direct frame decoder (ve_direct/parser.py).           *)
(*                                                                         *)
(* VEDirectParser.receive_bytes is a Python generator: calling it creates  *)
(* a suspended generator and changes nothing; each next() runs the loop    *)
(* body over the input bytes until an event is yielded, an exception is    *)
(* raised, or the input is exhausted.  The decoder's fields live in the    *)
(* parser object and so persist from one call to the next.                 *)
(*                                                                         *)
(* Bytes are integers 0..255, byte strings are sequences of bytes, and a   *)
(* Python str is a sequence of code points.                                *)
(***************************************************************************)
EXTENDS Integers, Sequences, FiniteSets, TLC

(***************************************************************************)
(* Program constants.                                                      *)
(***************************************************************************)
MAX_FIELD_LABEL_LEN == 9
MAX_FIELD_VALUE_LEN == 33
MAX_HEX_RECORD_LEN == 100

\* The byte literals the loop body compares against.
LF == 10
CR == 13
HT == 9
COLON == 58
ChecksumLabel == <<67, 104, 101, 99, 107, 115, 117, 109>>    \* b'Checksum'

\* VEDirectParser.State
State == {"IDLE", "RECORD_LABEL", "RECORD_VALUE", "CHECKSUM", "RECORD_HEX"}

(***************************************************************************)
(* Byte-string helpers.                                                    *)
(***************************************************************************)
\* bytearray(n): n zero bytes.
bytearray(n) == [k \in 1..n |-> 0]

\* buf[:n] of a Python slice: the first n elements, clamped to the length.
Slice(buf, n) == SubSeq(buf, 1, IF n < Len(buf) THEN n ELSE Len(buf))

\* sum(s) and b''.join(ss), halving the sequence to keep evaluation shallow.
RECURSIVE SumBytes(_)
SumBytes(s) ==
    IF s = <<>> THEN 0
    ELSE IF Len(s) = 1 THEN s[1]
    ELSE LET mid == Len(s) \div 2
         IN  SumBytes(SubSeq(s, 1, mid)) + SumBytes(SubSeq(s, mid + 1, Len(s)))

RECURSIVE Flatten(_)
Flatten(ss) ==
    IF ss = <<>> THEN <<>>
    ELSE IF Len(ss) = 1 THEN ss[1]
    ELSE LET mid == Len(ss) \div 2
         IN  Flatten(SubSeq(ss, 1, mid)) \o Flatten(SubSeq(ss, mid + 1, Len(ss)))

(***************************************************************************)
(* bytes.decode('utf-8'), strict.  The result is [ok, text]: ok is FALSE   *)
(* where Python raises UnicodeDecodeError, and text is the sequence of     *)
(* code points otherwise.                                                  *)
(***************************************************************************)
IsCont(b) == b >= 128 /\ b <= 191

RECURSIVE Utf8Decode(_)
Utf8Decode(bs) ==
    IF bs = <<>> THEN [ok |-> TRUE, text |-> <<>>]
    ELSE
      LET b0 == bs[1]
          n  == Len(bs)
          Rest(k, cp) ==
              LET r == Utf8Decode(SubSeq(bs, k + 1, n))
              IN  IF r.ok THEN [ok |-> TRUE, text |-> <<cp>> \o r.text]
                  ELSE r
          Bad == [ok |-> FALSE, text |-> <<>>]
      IN  IF b0 < 128 THEN Rest(1, b0)
          ELSE IF b0 >= 194 /\ b0 <= 223 THEN
              IF n >= 2 /\ IsCont(bs[2])
              THEN Rest(2, (b0 - 192) * 64 + (bs[2] - 128))
              ELSE Bad
          ELSE IF b0 >= 224 /\ b0 <= 239 THEN
              IF /\ n >= 3 /\ IsCont(bs[2]) /\ IsCont(bs[3])
                 /\ (b0 = 224 => bs[2] >= 160)
                 /\ (b0 = 237 => bs[2] <= 159)
              THEN Rest(3, (b0 - 224) * 4096 + (bs[2] - 128) * 64 + (bs[3] - 128))
              ELSE Bad
          ELSE IF b0 >= 240 /\ b0 <= 244 THEN
              IF /\ n >= 4 /\ IsCont(bs[2]) /\ IsCont(bs[3]) /\ IsCont(bs[4])
                 /\ (b0 = 240 => bs[2] >= 144)
                 /\ (b0 = 244 => bs[2] <= 143)
              THEN Rest(4, (b0 - 240) * 262144 + (bs[2] - 128) * 4096
                              + (bs[3] - 128) * 64 + (bs[4] - 128))
              ELSE Bad
          ELSE Bad

(***************************************************************************)
(* Events.                                                                 *)
(***************************************************************************)
TextEvent(label, value) == [type |-> "TextEvent", label |-> label, value |-> value]
FrameEndEvent(valid) == [type |-> "FrameEndEvent", valid |-> valid]
HexEvent(hex) == [type |-> "HexEvent", hex |-> hex]

\* What one pass of the loop body hands back when it yields nothing.
NoEvent == [type |-> "None"]

\* Mutant of VEDirectParser: the label and value buffers get each other's
\* size.
VEDirectParser_SwappedSizes ==
    [ label_buf     |-> bytearray(MAX_FIELD_VALUE_LEN),
      value_buf     |-> bytearray(MAX_FIELD_LABEL_LEN),
      hex_buf       |-> bytearray(MAX_HEX_RECORD_LEN),
      label_len     |-> 0,
      value_len     |-> 0,
      current_index |-> 0,
      checksum      |-> 0,
      state         |-> "IDLE",
      stray_value_len |-> -1 ]

(***************************************************************************)
(* VEDirectParser.__init__                                                 *)
(***************************************************************************)
VEDirectParser ==
    [ label_buf     |-> bytearray(MAX_FIELD_LABEL_LEN),
      value_buf     |-> bytearray(MAX_FIELD_VALUE_LEN),
      hex_buf       |-> bytearray(MAX_HEX_RECORD_LEN),
      label_len     |-> 0,
      value_len     |-> 0,
      current_index |-> 0,
      checksum      |-> 0,
      state         |-> "IDLE",
      \* self._value_len: the attribute line 139 creates (it is not the
      \* name-mangled self.__value_len); -1 while it does not exist.
      stray_value_len |-> -1 ]

(***************************************************************************)
(* The loop body of receive_bytes for one byte, up to its yield, its raise *)
(* or its end.  The result is [self, event, exc].                          *)
(***************************************************************************)
\* Mutant of Preempt: the checksum runs only inside a frame, so the bytes
\* taken in the Idle state are left out of it.
Preempt_CountsColon(self, byte) ==
    LET s1 == IF self.state # "RECORD_HEX"
              THEN [self EXCEPT !.checksum = @ + byte]
              ELSE self
    IN  IF byte = COLON /\ self.state # "CHECKSUM"
        THEN [s1 EXCEPT !.current_index = 0, !.state = "RECORD_HEX"]
        ELSE s1

Preempt_AlwaysHex(self, byte) ==
    LET s1 == IF byte = COLON
              THEN [self EXCEPT !.current_index = 0, !.state = "RECORD_HEX"]
              ELSE self
    IN  IF s1.state # "RECORD_HEX"
        THEN [s1 EXCEPT !.checksum = @ + byte]
        ELSE s1

Preempt_SkipsIdle(self, byte) ==
    LET s1 == IF byte = COLON /\ self.state # "CHECKSUM"
              THEN [self EXCEPT !.current_index = 0, !.state = "RECORD_HEX"]
              ELSE self
    IN  IF s1.state \notin {"RECORD_HEX", "IDLE"}
        THEN [s1 EXCEPT !.checksum = @ + byte]
        ELSE s1

\* Lines 109-113: hex preemption, then checksum accumulation.
Preempt(self, byte) ==
    LET s1 == IF byte = COLON /\ self.state # "CHECKSUM"
              THEN [self EXCEPT !.current_index = 0, !.state = "RECORD_HEX"]
              ELSE self
    IN  IF s1.state # "RECORD_HEX"
        THEN [s1 EXCEPT !.checksum = @ + byte]
        ELSE s1

\* buf[index] = byte; index += 1, raising IndexError past the buffer's end.
Store(s, field, byte) ==
    IF s.current_index >= Len(s[field])
    THEN [self |-> s, event |-> NoEvent, exc |-> "IndexError"]
    ELSE [self  |-> [s EXCEPT ![field][s.current_index + 1] = byte,
                              !.current_index = @ + 1],
          event |-> NoEvent, exc |-> ""]

\* Lines 115-157: the match statement; the first case that matches runs.
Match(s, byte) ==
    LET Quiet(t) == [self |-> t, event |-> NoEvent, exc |-> ""]
    IN  IF s.state = "IDLE" THEN
            IF byte = LF THEN Quiet([s EXCEPT !.state = "RECORD_LABEL"])
            ELSE Quiet(s)                    \* b'\r' is skipped; nothing else matches
        ELSE IF s.state = "RECORD_LABEL" THEN
            IF byte = HT /\ Slice(s.label_buf, s.current_index) = ChecksumLabel
            THEN Quiet([s EXCEPT !.state = "CHECKSUM"])
            ELSE IF byte = HT
            THEN Quiet([s EXCEPT !.label_len = s.current_index,
                                 !.current_index = 0,
                                 !.state = "RECORD_VALUE"])
            ELSE Store(s, "label_buf", byte)
        ELSE IF s.state = "RECORD_VALUE" THEN
            IF byte = CR THEN Quiet(s)
            ELSE IF byte = LF THEN
                LET t == [s EXCEPT !.value_len = s.current_index]
                    l == Utf8Decode(Slice(t.label_buf, t.label_len))
                    v == Utf8Decode(Slice(t.value_buf, t.value_len))
                IN  IF l.ok /\ v.ok
                    THEN [self |-> t, event |-> TextEvent(l.text, v.text), exc |-> ""]
                    ELSE [self |-> t, event |-> NoEvent, exc |-> "UnicodeDecodeError"]
            ELSE Store(s, "value_buf", byte)
        ELSE IF s.state = "CHECKSUM" THEN
            [self  |-> [s EXCEPT !.checksum = 0, !.state = "IDLE"],
             event |-> FrameEndEvent(s.checksum % 256 = 0),
             exc   |-> ""]
        ELSE \* RECORD_HEX
            IF byte = LF
            THEN [self  |-> s,
                  event |-> HexEvent(Slice(s.hex_buf, s.current_index)),
                  exc   |-> ""]
            ELSE IF byte # COLON THEN Store(s, "hex_buf", byte)
            ELSE Quiet(s)                    \* b':' was handled by lines 109-111

LoopBody(self, byte) == Match(Preempt(self, byte), byte)

\* Mutant of AfterYield: the index is not reset after a TextEvent.
AfterYield_KeepsIndex(self, type) ==
    IF type = "TextEvent"
    THEN [self EXCEPT !.label_len = 0,
                      !.stray_value_len = 0, !.state = "RECORD_LABEL"]
    ELSE self

\* The statements that follow a yield, run when the generator is resumed:
\* lines 139-140 after the TextEvent, nothing after the other two.
AfterYield(self, type) ==
    IF type = "TextEvent"
    THEN [self EXCEPT !.current_index = 0, !.label_len = 0,
                      !.stray_value_len = 0, !.state = "RECORD_LABEL"]
    ELSE self

(***************************************************************************)
(* The generator.  RunToYield runs the loop from the byte after position i *)
(* of input up to position hi: it stops at the first yield or raise, or    *)
(* when the chunk is exhausted (StopIteration).  The result's i is the     *)
(* position of the last byte the loop took from the input.                 *)
(***************************************************************************)
\* The loop over positions i+1..hi (i < hi), cut short at the first yield
\* or raise.  The range is halved rather than walked so that evaluating a
\* long input stays shallow; the bytes are still taken one by one, in order.
RECURSIVE RunRange(_, _, _, _)
RunRange(self, input, i, hi) ==
    IF hi - i = 1
    THEN LET r == LoopBody(self, input[i + 1])
         IN  [self |-> r.self, i |-> i + 1, event |-> r.event, exc |-> r.exc]
    ELSE LET mid == (i + hi) \div 2
             a   == RunRange(self, input, i, mid)
         IN  IF a.exc # "" \/ a.event.type # "None"
             THEN a
             ELSE RunRange(a.self, input, mid, hi)

RunToYield(self, input, i, hi) ==
    IF i >= hi
    THEN [self |-> self, i |-> i, event |-> NoEvent, exc |-> "StopIteration"]
    ELSE LET r == RunRange(self, input, i, hi)
         IN  IF r.exc = "" /\ r.event.type = "None"
             THEN [r EXCEPT !.exc = "StopIteration"]
             ELSE r

\* list(parser.receive_bytes(input)): one call, drained until the generator
\* ends.  The result is [self, events, exc], exc being "" when the
\* generator ended by exhausting its input.
RECURSIVE DrainFrom(_, _, _, _)
DrainFrom(self, input, i, events) ==
    LET r == RunToYield(self, input, i, Len(input))
    IN  IF r.exc = "StopIteration"
        THEN [self |-> r.self, events |-> events, exc |-> ""]
        ELSE IF r.exc # ""
        THEN [self |-> r.self, events |-> events, exc |-> r.exc]
        ELSE DrainFrom(AfterYield(r.self, r.event.type), input, r.i,
                       Append(events, r.event))

Drain(self, input) == DrainFrom(self, input, 0, <<>>)

(***************************************************************************)
(* Decoder objects.  The three buffers of a VEDirectParser are bytearray   *)
(* objects of their own: the heap h holds every bytearray by address, and  *)
(* an object's buffer fields hold addresses.                               *)
(***************************************************************************)
Allocate_Reuses(h, n) ==
    LET same == {a \in 1..Len(h) : Len(h[a]) = n}
    IN  IF same = {} THEN Len(h) + 1 ELSE CHOOSE a \in same : TRUE

\* The address of a new bytearray(n): one no object has yet.
Allocate(h, n) == Len(h) + 1

\* bytearray(n) evaluated on heap h.
New(h, n) ==
    LET a == Allocate(h, n)
    IN  [heap |-> IF a > Len(h) THEN Append(h, bytearray(n)) ELSE h, at |-> a]

\* VEDirectParser() evaluated on heap h: __init__ makes three bytearrays.
New_VEDirectParser(h) ==
    LET l == New(h, MAX_FIELD_LABEL_LEN)
        v == New(l.heap, MAX_FIELD_VALUE_LEN)
        x == New(v.heap, MAX_HEX_RECORD_LEN)
    IN  [heap |-> x.heap,
         self |-> [VEDirectParser EXCEPT !.label_buf = l.at, !.value_buf = v.at,
                                         !.hex_buf = x.at]]

\* The object self with its buffers' contents in place of their addresses.
Deref(self, h) ==
    [self EXCEPT !.label_buf = h[@], !.value_buf = h[@], !.hex_buf = h[@]]

\* The heap and the object after the body has turned the contents of self
\* into those of after.
WriteBack(h, self, after) ==
    [h EXCEPT ![self.label_buf] = after.label_buf,
              ![self.value_buf] = after.value_buf,
              ![self.hex_buf] = after.hex_buf]
Ref(self, after) ==
    [after EXCEPT !.label_buf = self.label_buf, !.value_buf = self.value_buf,
                  !.hex_buf = self.hex_buf]

(***************************************************************************)
(* hex_protocol.py: the requests of the HEX protocol and their encoding.   *)
(*                                                                         *)
(* An Optional[bytes] payload is <<>> for None and <<bytes>> otherwise.    *)
(* A call returns [exc, value]: exc names the exception it raised, "" when *)
(* it returned value.                                                      *)
(***************************************************************************)
None == <<>>
Some(bytes) == <<bytes>>
Returned(value) == [exc |-> "", value |-> value]
Raised(exc) == [exc |-> exc, value |-> <<>>]

HexRequestType ==
    [PING |-> 49, APP_VERSION |-> 51, PRODUCT_ID |-> 52, RESTART |-> 54,
     GET |-> 55, SET |-> 56, ASYNC |-> 65]

\* staticmethod(f): a staticmethod object wrapping f.
staticmethod(func) == [class |-> "staticmethod", func |-> func]

\* abc.abstractmethod(funcobj) assigns funcobj.__isabstractmethod__ = True;
\* a staticmethod object has that attribute read-only.
abstractmethod(funcobj) ==
    IF funcobj.class = "staticmethod"
    THEN Raised("AttributeError")
    ELSE Returned(funcobj)

\* The body of class HexDataRequest: type is decorated with staticmethod
\* and then, above it, with abstractmethod.
HexDataRequest == abstractmethod(staticmethod("type"))

\* import ve_direct.hex_protocol: the module body runs the class statement.
hex_protocol == HexDataRequest.exc

\* cls.type().value of each request class.
request_type(class) ==
    CASE class = "PingRequest"       -> HexRequestType.PING
      [] class = "AppVersionRequest" -> HexRequestType.APP_VERSION
      [] class = "ProductIdRequest"  -> HexRequestType.PRODUCT_ID
      [] class = "RestartRequest"    -> HexRequestType.RESTART
      [] class = "GetRequest"        -> HexRequestType.GET
      [] class = "SetRequest"        -> HexRequestType.SET
      [] class = "AsyncRequest"      -> HexRequestType.ASYNC

PingRequest(payload) == [class |-> "PingRequest", payload |-> payload]
AppVersionRequest(payload) == [class |-> "AppVersionRequest", payload |-> payload]
ProductIdRequest(payload) == [class |-> "ProductIdRequest", payload |-> payload]
RestartRequest(payload) == [class |-> "RestartRequest", payload |-> payload]
GetRequest(payload) == [class |-> "GetRequest", payload |-> payload]
SetRequest(payload) == [class |-> "SetRequest", payload |-> payload]
AsyncRequest(payload) == [class |-> "AsyncRequest", payload |-> payload]

\* One character of bytes.hex(), upper-cased: 0-9 then A-F.
HexDigit(n) == IF n < 10 THEN 48 + n ELSE 55 + n

\* payload.hex().encode('ascii').upper()
bytes_hex(bytes) ==
    [k \in 1..(2 * Len(bytes)) |->
        IF k % 2 = 1 THEN HexDigit(bytes[(k + 1) \div 2] \div 16)
        ELSE HexDigit(bytes[k \div 2] % 16)]

serialize(self) ==
    LET payload_len == IF self.payload # None THEN Len(self.payload[1]) ELSE 0
        head == <<COLON, request_type(self.class)>>
    IN  IF self.payload # None /\ payload_len > 0
        THEN head \o bytes_hex(self.payload[1])
        ELSE head \o bytearray(2 * payload_len)

\* value_id.to_bytes(2, 'little')
to_bytes(value_id) ==
    IF value_id < 0 \/ value_id > 65535
    THEN Raised("OverflowError")
    ELSE Returned(<<value_id % 256, value_id \div 256>>)

ping_request == Returned(PingRequest(None))
app_version_request == Returned(AppVersionRequest(None))
product_id_request == Returned(ProductIdRequest(None))
restart_request == Returned(RestartRequest(None))

get_request(value_id) ==
    LET id == to_bytes(value_id)
    IN  IF id.exc # "" THEN id
        ELSE Returned(GetRequest(Some(id.value \o <<0>>)))

\* buf = bytearray(3 + len(value)); buf[0:2] = id; buf[3:] = value
set_request(value_id, value) ==
    LET id == to_bytes(value_id)
    IN  IF id.exc # "" THEN id
        ELSE Returned(SetRequest(Some(id.value \o <<0>> \o value)))

\* The same body as set_request, SetRequest included.
async_request(value_id, value) ==
    LET id == to_bytes(value_id)
    IN  IF id.exc # "" THEN id
        ELSE Returned(SetRequest(Some(id.value \o <<0>> \o value)))

\* int.from_bytes(memoryview(self.payload)[:2], 'little')
request_value_id(self) ==
    LET b == Slice(self.payload[1], 2)
    IN  IF Len(b) = 0 THEN 0
        ELSE IF Len(b) = 1 THEN b[1]
        ELSE b[1] + 256 * b[2]

\* self.payload[3:]
request_value(self) ==
    IF Len(self.payload[1]) <= 3 THEN <<>>
    ELSE SubSeq(self.payload[1], 4, Len(self.payload[1]))

(***************************************************************************)
(* The byte streams the decoder is fed.                                    *)
(*                                                                         *)
(* A stream is one or two parts.  A part is a text frame built from a      *)
(* list of records (delta = 0 gives the checksum byte that makes the       *)
(* frame's byte sum 0 mod 256, delta = 1 a byte that is off by one), or a  *)
(* raw byte string.                                                        *)
(***************************************************************************)
MaxRecords == 2      \* records per generated frame
MaxTokens == 3       \* tokens per generated raw string
MaxRaises == 2       \* exceptions after which the caller stops feeding the decoder

\* str.encode('utf-8') of one code point, and of a string.
Utf8EncodeChar(cp) ==
    IF cp < 128 THEN <<cp>>
    ELSE IF cp < 2048 THEN <<192 + (cp \div 64), 128 + (cp % 64)>>
    ELSE IF cp < 65536
    THEN <<224 + (cp \div 4096), 128 + ((cp \div 64) % 64), 128 + (cp % 64)>>
    ELSE <<240 + (cp \div 262144), 128 + ((cp \div 4096) % 64),
           128 + ((cp \div 64) % 64), 128 + (cp % 64)>>

Utf8Encode(text) == Flatten([k \in 1..Len(text) |-> Utf8EncodeChar(text[k])])

Repeat(byte, n) == [k \in 1..n |-> byte]

\* The records frames are generated from: ("V", "0"), an empty label with
\* the non-ASCII value "é€", and a label of exactly MAX_FIELD_LABEL_LEN
\* bytes with a value of exactly MAX_FIELD_VALUE_LEN bytes.
RecordV == [label |-> <<86>>, value |-> <<48>>]
FieldRecords ==
    { RecordV,
      [label |-> <<>>, value |-> <<233, 8364>>],
      [label |-> [k \in 1..MAX_FIELD_LABEL_LEN |-> 64 + k],
       value |-> [k \in 1..MAX_FIELD_VALUE_LEN |-> 48 + (k % 10)]] }

RecordBytes(r) == Utf8Encode(r.label) \o <<HT>> \o Utf8Encode(r.value) \o <<CR, LF>>

\* "\r\n", the records, "Checksum\t" and the checksum byte.
FrameBytes(records, delta) ==
    LET body == <<CR, LF>>
                  \o Flatten([k \in 1..Len(records) |-> RecordBytes(records[k])])
                  \o ChecksumLabel \o <<HT>>
    IN  body \o <<(256 - (SumBytes(body) % 256) + delta) % 256>>

Frame(records, delta) ==
    [kind |-> "frame", records |-> records, delta |-> delta,
     bytes |-> FrameBytes(records, delta)]
Raw(bytes) == [kind |-> "raw", records |-> <<>>, delta |-> 0, bytes |-> bytes]

SeqsUpTo(S, n) == UNION {[1..k -> S] : k \in 0..n}

\* Raw strings: every concatenation of up to MaxTokens of these tokens.
Tokens == {<<LF>>, <<HT>>, <<COLON>>, <<97>>, ChecksumLabel}
TailTokens == {<<LF>>, <<HT>>, <<97>>}

\* unit_test.py: MPPT_SAMPLE and MPPT_SAMPLE_FIELDS.
MPPT_SAMPLE ==
    <<13, 10, 80, 73, 68, 9, 48, 120, 65, 48, 52, 50,
      13, 10, 70, 87, 9, 49, 49, 54,
      13, 10, 83, 69, 82, 35, 9, 72, 81, 49, 54, 51, 54, 87, 82, 55, 75, 87,
      13, 10, 86, 9, 49, 49, 48, 50, 48,
      13, 10, 73, 9, 48,
      13, 10, 86, 80, 86, 9, 49, 50, 51, 48, 48,
      13, 10, 80, 80, 86, 9, 48,
      13, 10, 67, 83, 9, 48,
      13, 10, 69, 82, 82, 9, 48,
      13, 10, 76, 79, 65, 68, 9, 79, 78,
      13, 10, 73, 76, 9, 48,
      13, 10, 72, 49, 57, 9, 51, 50, 55,
      13, 10, 72, 50, 48, 9, 48,
      13, 10, 72, 50, 49, 9, 48,
      13, 10, 72, 50, 50, 9, 48,
      13, 10, 72, 50, 51, 9, 48,
      13, 10, 72, 83, 68, 83, 9, 51, 53,
      13, 10, 67, 104, 101, 99, 107, 115, 117, 109, 9, 114>>

MPPT_SAMPLE_FIELDS ==
    << TextEvent(<<80, 73, 68>>, <<48, 120, 65, 48, 52, 50>>),
       TextEvent(<<70, 87>>, <<49, 49, 54>>),
       TextEvent(<<83, 69, 82, 35>>, <<72, 81, 49, 54, 51, 54, 87, 82, 55, 75, 87>>),
       TextEvent(<<86>>, <<49, 49, 48, 50, 48>>),
       TextEvent(<<73>>, <<48>>),
       TextEvent(<<86, 80, 86>>, <<49, 50, 51, 48, 48>>),
       TextEvent(<<80, 80, 86>>, <<48>>),
       TextEvent(<<67, 83>>, <<48>>),
       TextEvent(<<69, 82, 82>>, <<48>>),
       TextEvent(<<76, 79, 65, 68>>, <<79, 78>>),
       TextEvent(<<73, 76>>, <<48>>),
       TextEvent(<<72, 49, 57>>, <<51, 50, 55>>),
       TextEvent(<<72, 50, 48>>, <<48>>),
       TextEvent(<<72, 50, 49>>, <<48>>),
       TextEvent(<<72, 50, 50>>, <<48>>),
       TextEvent(<<72, 50, 51>>, <<48>>),
       TextEvent(<<72, 83, 68, 83>>, <<51, 53>>),
       FrameEndEvent(TRUE) >>

\* Records and hex records at and one past each buffer's bound.
LongLabelRecord ==
    <<LF>> \o Repeat(97, MAX_FIELD_LABEL_LEN + 1) \o <<HT, 48, CR, LF>>
LongValueRecord ==
    <<LF, 86, HT>> \o Repeat(48, MAX_FIELD_VALUE_LEN + 1) \o <<CR, LF>>
LongHexRecord ==
    <<LF, 97, COLON>> \o Repeat(55, MAX_HEX_RECORD_LEN + 1) \o <<LF>>
FullHexRecord ==
    <<LF, 86, HT, 48, CR, LF, COLON>> \o Repeat(55, MAX_HEX_RECORD_LEN) \o <<LF>>
HexRecord == <<COLON, 55, LF>>
\* A frame whose checksum byte is ':', then a byte and a '\n':
\* b'\r\nV\t~\x7f\r\nChecksum\t:7\n', the frame's bytes summing to 0 mod 256.
ColonChecksumFrame ==
    <<CR, LF, 86, HT, 126, 127, CR, LF>> \o ChecksumLabel \o <<HT, COLON, 55, LF>>
\* A record whose value is not valid UTF-8.
BadTextRecord == <<CR, LF, 86, HT, 255, CR, LF>>

GeneratedFrames ==
    {Frame(rs, d) : rs \in SeqsUpTo(FieldRecords, MaxRecords), d \in {0, 1}}
GeneratedRaws ==
    {Raw(Flatten(ts)) : ts \in SeqsUpTo(Tokens, MaxTokens)}
SpecialRaws ==
    {Raw(MPPT_SAMPLE), Raw(LongLabelRecord), Raw(LongValueRecord),
     Raw(LongHexRecord), Raw(FullHexRecord), Raw(BadTextRecord),
     Raw(ColonChecksumFrame)}
Firsts ==
    {Frame(<<>>, 0), Frame(<<RecordV>>, 0), Frame(<<RecordV>>, 1),
     Raw(LongLabelRecord), Raw(HexRecord)}
Seconds ==
    {Frame(rs, 0) : rs \in SeqsUpTo(FieldRecords, 1)}
      \cup {Raw(Flatten(ts)) : ts \in SeqsUpTo(TailTokens, MaxTokens)}

Scenarios ==
    {<<p>> : p \in GeneratedFrames \cup GeneratedRaws \cup SpecialRaws}
      \cup {<<p, q>> : p \in Firsts, q \in Seconds}

ScenarioBytes(sc) == Flatten([k \in 1..Len(sc) |-> sc[k].bytes])

(***************************************************************************)
(* State.                                                                  *)
(***************************************************************************)
VARIABLES
    parser,      \* the VEDirectParser object
    gen,         \* the generator the last receive_bytes call returned
    scenario,    \* the parts of the stream
    stream,      \* the bytes the transport delivers, in order
    events,      \* every event yielded so far
    event_at,    \* event_at[k]: the stream position of the byte that yielded events[k]
    raised,      \* every exception raised so far, with the position of its byte
    request,     \* the hex_protocol call a caller makes
    result,      \* what that call gave the caller
    heap,        \* the bytearray objects, by address
    decoders     \* two VEDirectParser objects, each with its caller's view

decvars == <<parser, gen, scenario, stream, events, event_at, raised>>
hexvars == <<request, result>>
twovars == <<heap, decoders>>
vars == <<parser, gen, scenario, stream, events, event_at, raised, request, result,
          heap, decoders>>

NoGen == [status |-> "none", lo |-> 0, hi |-> 0, i |-> 0, at_yield |-> "None"]
NoRequest == [fn |-> "none", value_id |-> 0, value |-> <<>>]
NoObject == [class |-> "none", payload |-> None]
NoResult == [exc |-> "none", request |-> NoObject, bytes |-> <<>>]

\* gen.status: "none" before the first call, "created" between the call and
\* the first next(), "suspended" at a yield (at_yield names the event), and
\* "exhausted" or "raised" once it has ended.  The generator iterates over
\* stream positions lo+1..hi and has taken the bytes up to position i.
Init ==
    /\ scenario \in Scenarios
    /\ stream = ScenarioBytes(scenario)
    /\ parser = VEDirectParser
    /\ gen = NoGen
    /\ events = <<>>
    /\ event_at = <<>>
    /\ raised = <<>>
    /\ request = NoRequest
    /\ result = NoResult
    /\ heap = <<>>
    /\ decoders = <<>>

Drained == gen.status \in {"none", "exhausted", "raised"}

\* The end of the part that holds stream position pos + 1.
PartEnd(pos) ==
    LET first == Len(scenario[1].bytes)
    IN  IF pos < first THEN first ELSE Len(stream)

\* The sizes of the next chunk: one byte, or up to the end of the part, or
\* all that is left.
ChunkSizes == {1, PartEnd(gen.hi) - gen.hi, Len(stream) - gen.hi}

\* parser.receive_bytes(stream[hi+1 .. hi+n]): returns a new generator; no
\* line of the body has run yet.
ReceiveBytes(n) ==
    /\ Drained
    /\ Len(raised) < MaxRaises
    /\ gen.hi < Len(stream)
    /\ gen' = [status |-> "created", lo |-> gen.hi, hi |-> gen.hi + n,
               i |-> gen.hi, at_yield |-> "None"]
    /\ UNCHANGED <<parser, scenario, stream, events, event_at, raised>>
    /\ UNCHANGED hexvars
    /\ UNCHANGED twovars

\* next(gen): run the body to its next yield, its raise, or its end.
Resume ==
    /\ gen.status \in {"created", "suspended"}
    /\ LET s0 == IF gen.status = "suspended"
                 THEN AfterYield(parser, gen.at_yield)
                 ELSE parser
           r  == RunToYield(s0, stream, gen.i, gen.hi)
       IN  /\ parser' = r.self
           /\ gen' = [gen EXCEPT
                        !.status = IF r.exc = "StopIteration" THEN "exhausted"
                                   ELSE IF r.exc # "" THEN "raised"
                                   ELSE "suspended",
                        !.i = r.i,
                        !.at_yield = r.event.type]
           /\ events' = IF r.event.type # "None" THEN Append(events, r.event)
                        ELSE events
           /\ event_at' = IF r.event.type # "None" THEN Append(event_at, r.i)
                          ELSE event_at
           /\ raised' = IF r.exc \notin {"", "StopIteration"}
                        THEN Append(raised, [exc |-> r.exc, at |-> r.i])
                        ELSE raised
    /\ UNCHANGED <<scenario, stream>>
    /\ UNCHANGED hexvars
    /\ UNCHANGED twovars

Next ==
    \/ \E n \in ChunkSizes : ReceiveBytes(n)
    \/ Resume

Spec == Init /\ [][Next]_vars

\* The caller stops iterating: the generator is closed where it stands, at
\* its start or at a yield, and no further line of its body runs.
Abandon ==
    /\ gen.status \in {"created", "suspended"}
    /\ gen' = [gen EXCEPT !.status = "closed"]
    /\ UNCHANGED <<parser, scenario, stream, events, event_at, raised>>
    /\ UNCHANGED hexvars
    /\ UNCHANGED twovars

LazyNext ==
    \/ Next
    \/ Abandon

\* The decoder with callers that may stop iterating.
LazySpec == Init /\ [][LazyNext]_vars

(***************************************************************************)
(* A caller of hex_protocol.py: it imports the module, builds one request  *)
(* with a factory of HexDataRequest, serializes it and reads its           *)
(* properties.                                                             *)
(***************************************************************************)
MaxValueLen == 2     \* bytes in the value of a set or async request

MaxRegisterId == 65535
RegisterIds == 0..MaxRegisterId
SampleIds == {0, 1, 255, 256, 60912, MaxRegisterId}
ValueBytes == {0, 15, 171, 255}

HexRequests ==
    {[fn |-> f, value_id |-> 0, value |-> <<>>] :
        f \in {"ping_request", "app_version_request", "product_id_request",
               "restart_request"}}
      \cup {[fn |-> "get_request", value_id |-> id, value |-> <<>>] :
               id \in RegisterIds}
      \cup {[fn |-> f, value_id |-> id, value |-> v] :
               f \in {"set_request", "async_request"}, id \in SampleIds,
               v \in SeqsUpTo(ValueBytes, MaxValueLen)}

\* HexDataRequest.<fn>(...) for the call c.
Build(c) ==
    CASE c.fn = "ping_request"        -> ping_request
      [] c.fn = "app_version_request" -> app_version_request
      [] c.fn = "product_id_request"  -> product_id_request
      [] c.fn = "restart_request"     -> restart_request
      [] c.fn = "get_request"         -> get_request(c.value_id)
      [] c.fn = "set_request"         -> set_request(c.value_id, c.value)
      [] c.fn = "async_request"       -> async_request(c.value_id, c.value)

\* What the caller gets: the exception of the import or of the factory, or
\* the request and its serialization.
Call(c) ==
    IF hex_protocol # ""
    THEN [exc |-> hex_protocol, request |-> NoObject, bytes |-> <<>>]
    ELSE LET r == Build(c)
         IN  IF r.exc # "" THEN [exc |-> r.exc, request |-> NoObject, bytes |-> <<>>]
             ELSE [exc |-> "", request |-> r.value, bytes |-> serialize(r.value)]

HexInit ==
    /\ request \in HexRequests
    /\ result = NoResult
    /\ parser = VEDirectParser
    /\ gen = NoGen
    /\ scenario = <<>>
    /\ stream = <<>>
    /\ events = <<>>
    /\ event_at = <<>>
    /\ raised = <<>>
    /\ heap = <<>>
    /\ decoders = <<>>

CallHexProtocol ==
    /\ result = NoResult
    /\ result' = Call(request)
    /\ UNCHANGED request
    /\ UNCHANGED decvars
    /\ UNCHANGED twovars

HexNext == CallHexProtocol

HexSpec == HexInit /\ [][HexNext]_vars

(***************************************************************************)
(* Two decoders, each fed its own stream by its own caller; the callers'   *)
(* receive_bytes calls and next() calls interleave in any order.  alone is *)
(* the decoder of the same caller when no other decoder exists.            *)
(***************************************************************************)
TwoStreams ==
    { <<LF, 86, HT, 48, LF>>,              \* b'\nV\t0\n'
      <<LF, 97, 98, HT, 49, 50, LF>>,      \* b'\nab\t12\n'
      <<COLON, 55, 56, LF>>,               \* b':78\n'
      FrameBytes(<<RecordV>>, 0),
      <<LF>> \o Repeat(97, MAX_FIELD_LABEL_LEN + 1) }   \* raises IndexError

Caller(self, input) ==
    [self |-> self, stream |-> input, gen |-> NoGen, events |-> <<>>,
     alone |-> [self |-> VEDirectParser, events |-> <<>>]]

TwoInit ==
    /\ LET a == New_VEDirectParser(<<>>)
           b == New_VEDirectParser(a.heap)
       IN  /\ heap = b.heap
           /\ \E s1 \in TwoStreams, s2 \in TwoStreams :
                 decoders = <<Caller(a.self, s1), Caller(b.self, s2)>>
    /\ request = NoRequest
    /\ result = NoResult
    /\ parser = VEDirectParser
    /\ gen = NoGen
    /\ scenario = <<>>
    /\ stream = <<>>
    /\ events = <<>>
    /\ event_at = <<>>
    /\ raised = <<>>

\* decoders[d].self.receive_bytes(the next n bytes of its stream)
ReceiveBytesOn(d, n) ==
    LET c == decoders[d]
    IN  /\ c.gen.status \in {"none", "exhausted", "raised"}
        /\ c.gen.hi < Len(c.stream)
        /\ n \in {1, Len(c.stream) - c.gen.hi}
        /\ decoders' = [decoders EXCEPT ![d].gen =
                           [status |-> "created", lo |-> c.gen.hi,
                            hi |-> c.gen.hi + n, i |-> c.gen.hi,
                            at_yield |-> "None"]]
        /\ UNCHANGED <<heap, decvars, hexvars>>

\* The body of receive_bytes from where generator g stands, on the contents
\* self.
Body(self, g, input) ==
    RunToYield(IF g.status = "suspended" THEN AfterYield(self, g.at_yield) ELSE self,
               input, g.i, g.hi)

\* next() on the generator of decoders[d].
ResumeOn(d) ==
    LET c == decoders[d]
        r == Body(Deref(c.self, heap), c.gen, c.stream)
        a == Body(c.alone.self, c.gen, c.stream)
    IN  /\ c.gen.status \in {"created", "suspended"}
        /\ heap' = WriteBack(heap, c.self, r.self)
        /\ decoders' = [decoders EXCEPT ![d] =
              [c EXCEPT
                 !.self = Ref(c.self, r.self),
                 !.gen = [c.gen EXCEPT
                            !.status = IF r.exc = "StopIteration" THEN "exhausted"
                                       ELSE IF r.exc # "" THEN "raised"
                                       ELSE "suspended",
                            !.i = r.i,
                            !.at_yield = r.event.type],
                 !.events = IF r.event.type # "None" THEN Append(@, r.event) ELSE @,
                 !.alone = [self |-> a.self,
                            events |-> IF a.event.type # "None"
                                       THEN Append(@.events, a.event)
                                       ELSE @.events]]]
        /\ UNCHANGED <<decvars, hexvars>>

TwoNext ==
    \E d \in {1, 2} :
        \/ \E n \in 1..Len(decoders[d].stream) : ReceiveBytesOn(d, n)
        \/ ResumeOn(d)

TwoSpec == TwoInit /\ [][TwoNext]_vars

(***************************************************************************)
(* Vocabulary of the properties.                                           *)
(***************************************************************************)
\* Everything has been fed and the last generator has ended.
Done == Drained /\ gen.hi = Len(stream)

\* The events a frame's records stand for, then FrameEnd(valid).
ExpectedEvents(records, valid) ==
    [k \in 1..Len(records) |-> TextEvent(records[k].label, records[k].value)]
      \o <<FrameEndEvent(valid)>>

IsFrame(p) == p.kind = "frame"

\* The events yielded for stream positions after pos.
EventsAfter(pos) ==
    LET idx == {k \in 1..Len(events) : event_at[k] > pos}
    IN  IF idx = {} THEN <<>>
        ELSE SubSeq(events, CHOOSE k \in idx : \A j \in idx : k <= j, Len(events))

\* The position of the last FrameEnd before event k, 0 when there is none.
PrevFrameEnd(k) ==
    LET idx == {j \in 1..(k - 1) : events[j].type = "FrameEndEvent"}
    IN  IF idx = {} THEN 0
        ELSE event_at[CHOOSE j \in idx : \A i \in idx : i <= j]

\* The position of the event before event k, 0 when there is none.
PrevEventAt(k) == IF k = 1 THEN 0 ELSE event_at[k - 1]

\* No exception was raised at or before stream position pos.
NoRaiseUpTo(pos) == \A k \in 1..Len(raised) : raised[k].at > pos

(***************************************************************************)
(* C1: a fresh decoder fed one well-formed text frame yields one TextField *)
(* per record, in input order, with the record's label and value, then one *)
(* FrameEnd(valid = true), and nothing else; no event is yielded that is   *)
(* not a prefix of that sequence.  The MPPT sample of the unit test yields *)
(* its 17 TextFields and then FrameEnd(true).  Well-formed is read as the  *)
(* frame grammar has it: label and value within the buffer bounds and free *)
(* of the separators, and "Checksum" only as the closing label.            *)
(***************************************************************************)
WellFormedRecord(r) ==
    LET label == Utf8Encode(r.label)
        value == Utf8Encode(r.value)
    IN  /\ Len(label) <= MAX_FIELD_LABEL_LEN
        /\ Len(value) <= MAX_FIELD_VALUE_LEN
        /\ label # ChecksumLabel
        /\ \A k \in 1..Len(label) : label[k] \notin {HT, CR, LF, COLON}
        /\ \A k \in 1..Len(value) : value[k] \notin {HT, CR, LF, COLON}

C1_WellFormedFrame ==
    /\ (/\ Len(scenario) = 1 /\ IsFrame(scenario[1]) /\ scenario[1].delta = 0
        /\ \A k \in 1..Len(scenario[1].records) :
              WellFormedRecord(scenario[1].records[k])) =>
          LET want == ExpectedEvents(scenario[1].records, TRUE)
          IN  /\ raised = <<>>
              /\ Len(events) <= Len(want)
              /\ events = SubSeq(want, 1, Len(events))
              /\ Done => events = want
    /\ (scenario = <<Raw(MPPT_SAMPLE)>> /\ Done) =>
          (events = MPPT_SAMPLE_FIELDS /\ raised = <<>>)

\* A two-record frame, the first record at both buffer bounds, fully decoded
\* from a single receive_bytes call.
C1_Witness ==
    /\ Len(scenario) = 1 /\ IsFrame(scenario[1]) /\ scenario[1].delta = 0
    /\ Len(scenario[1].records) = 2
    /\ Len(scenario[1].records[1].label) = MAX_FIELD_LABEL_LEN
    /\ scenario[1].records[2] = RecordV
    /\ gen.lo = 0 /\ Done
    /\ Len(events) = 3

(***************************************************************************)
(* C2: feeding a byte sequence in chunks (each generator drained before    *)
(* the next call) yields, concatenated, the same event sequence as one     *)
(* receive_bytes call with the whole sequence.  (The claim adds the final  *)
(* decoder state; the events alone already differ.)                        *)
(***************************************************************************)
C2_StreamingInvariant ==
    Done => events = Drain(VEDirectParser, stream).events

(***************************************************************************)
(* C3: a FrameEnd is valid exactly when the checksum-eligible bytes of its *)
(* frame sum to 0 mod 256.  The frame's bytes are those after the previous *)
(* FrameEnd (or from the start of the stream) up to the checksum byte; no  *)
(* byte before the checksum byte is a ':', so none of them was taken in    *)
(* the Hex state and all of them are eligible.                             *)
(***************************************************************************)
C3_ChecksumInvariant ==
    \A k \in 1..Len(events) :
       (events[k].type = "FrameEndEvent" /\ NoRaiseUpTo(event_at[k])) =>
          LET frame == SubSeq(stream, PrevFrameEnd(k) + 1, event_at[k])
          IN  /\ \A j \in 1..(Len(frame) - 1) : frame[j] # COLON
              /\ events[k].valid <=> (SumBytes(frame) % 256 = 0)

\* One stream with a frame that fails its checksum and a frame that passes.
C3_Witness ==
    /\ Done
    /\ \E j, k \in 1..Len(events) :
          /\ j < k
          /\ events[j] = FrameEndEvent(FALSE)
          /\ events[k] = FrameEndEvent(TRUE)

(***************************************************************************)
(* C4: when a ':' arrives in the Label or Value state, the decoder enters  *)
(* the Hex state with the index reset to 0, no TextField or FrameEnd is    *)
(* yielded for the interrupted field, and the next '\n' yields exactly one *)
(* HexMessage whose bytes are the input bytes strictly between that ':'    *)
(* and that '\n'.  (Read in the claim's favour: no further ':' lies        *)
(* between the two.)                                                       *)
(***************************************************************************)
\* The state the decoder is in when the byte at position p arrives, for a
\* stream that raised nothing before p.
StateBefore(p) == Drain(VEDirectParser, SubSeq(stream, 1, p - 1)).self.state

Preempts(p) ==
    /\ stream[p] = COLON
    /\ NoRaiseUpTo(p)
    /\ StateBefore(p) \in {"RECORD_LABEL", "RECORD_VALUE"}

C4_HexPreemption ==
    /\ (gen.status = "exhausted" /\ gen.i >= 1 /\ Preempts(gen.i)) =>
          (parser.state = "RECORD_HEX" /\ parser.current_index = 0)
    /\ Done =>
          \A p \in 1..Len(stream) : Preempts(p) =>
             \A q \in (p + 1)..Len(stream) :
                (/\ stream[q] = LF
                 /\ \A j \in (p + 1)..(q - 1) : stream[j] \notin {LF, COLON}) =>
                   /\ \A k \in 1..Len(events) : ~(event_at[k] >= p /\ event_at[k] < q)
                   /\ \E k \in 1..Len(events) :
                         /\ event_at[k] = q
                         /\ events[k] = HexEvent(SubSeq(stream, p + 1, q - 1))

(***************************************************************************)
(* C5: after any FrameEnd the decoder is back in Idle with the checksum    *)
(* and the buffer index reset, and a following well-formed frame yields    *)
(* the events it yields on a fresh decoder.                                *)
(***************************************************************************)
C5_NextFrameDecodes ==
    (/\ Len(scenario) = 2 /\ IsFrame(scenario[1]) /\ IsFrame(scenario[2])
     /\ scenario[2].delta = 0 /\ Done) =>
       EventsAfter(Len(scenario[1].bytes))
          = Drain(VEDirectParser, scenario[2].bytes).events

\* The state half of C5, at the yield of a FrameEnd.  The code leaves
\* current_index at 8, the length of "Checksum".
ResetAfterFrameEnd ==
    (gen.status = "suspended" /\ gen.at_yield = "FrameEndEvent") =>
       /\ parser.state = "IDLE"
       /\ parser.checksum = 0
       /\ parser.current_index = 0

(***************************************************************************)
(* C6: from every state the decoder can reach there is a further input     *)
(* that brings it back to Idle.  The inputs tried are the suffixes of      *)
(* "\t\nChecksum\tx", which end the field and the frame in progress from   *)
(* any text state.                                                         *)
(***************************************************************************)
RecoveryInput == <<HT, LF>> \o ChecksumLabel \o <<HT, 120>>
Recoveries ==
    {SubSeq(RecoveryInput, k, Len(RecoveryInput)) : k \in 1..(Len(RecoveryInput) + 1)}

C6_PathBackToIdle ==
    Drained => \E input \in Recoveries : Drain(parser, input).self.state = "IDLE"

\* Why no other input helps either: whatever byte arrives in the Hex state,
\* the decoder is in the Hex state after it.
HexIsAbsorbing ==
    parser.state = "RECORD_HEX" =>
       \A byte \in 0..255 : LoopBody(parser, byte).self.state = "RECORD_HEX"

(***************************************************************************)
(* C7: receive_bytes raises no error: an over-long label, value or hex     *)
(* record is absorbed or ends in FrameEnd(false), and the write past the   *)
(* buffer's end never surfaces as an error.                                *)
(***************************************************************************)
C7_NoErrorOnOverflow == \A k \in 1..Len(raised) : raised[k].exc # "IndexError"

(***************************************************************************)
(* C8: a label of more than 9 bytes is discarded and the decoder returns   *)
(* to Idle, so that the next well-formed frame decodes to its TextFields   *)
(* and its FrameEnd.                                                       *)
(***************************************************************************)
C8_BoundEnforcement ==
    (/\ Len(scenario) = 2 /\ scenario[1] = Raw(LongLabelRecord)
     /\ IsFrame(scenario[2]) /\ scenario[2].delta = 0) =>
       /\ (Drained /\ gen.hi = Len(scenario[1].bytes)) => parser.state = "IDLE"
       /\ Done => EventsAfter(Len(scenario[1].bytes))
                    = ExpectedEvents(scenario[2].records, TRUE)

(***************************************************************************)
(* C9: a FrameEnd is yielded only for the byte that follows the label      *)
(* "Checksum" and its tab: the bytes received since the label started (the *)
(* byte after a '\n') are "Checksum", TAB and the checksum byte.           *)
(***************************************************************************)
C9_FrameEndFollowsChecksum ==
    \A k \in 1..Len(events) :
       events[k].type = "FrameEndEvent" =>
          /\ event_at[k] >= 11
          /\ SubSeq(stream, event_at[k] - 10, event_at[k] - 1)
                = <<LF>> \o ChecksumLabel \o <<HT>>

(***************************************************************************)
(* C10: every event respects the buffer bounds: a TextField's label is at  *)
(* most 9 bytes and its value at most 33 bytes, a HexMessage holds at most *)
(* 100 bytes; and a TextField is yielded only for a '\n' that ends a value *)
(* whose label a tab ended since the previous event.                       *)
(***************************************************************************)
C10_EventBounds ==
    \A k \in 1..Len(events) :
       /\ events[k].type = "TextEvent" =>
             /\ Len(Utf8Encode(events[k].label)) <= MAX_FIELD_LABEL_LEN
             /\ Len(Utf8Encode(events[k].value)) <= MAX_FIELD_VALUE_LEN
             /\ stream[event_at[k]] = LF
             /\ \E t \in (PrevEventAt(k) + 1)..(event_at[k] - 1) : stream[t] = HT
       /\ events[k].type = "HexEvent" =>
             Len(events[k].hex) <= MAX_HEX_RECORD_LEN

\* A stream that has yielded a TextField and then a HexMessage of exactly
\* MAX_HEX_RECORD_LEN bytes.
C10_Witness ==
    /\ \E k \in 1..Len(events) :
          /\ events[k].type = "HexEvent"
          /\ Len(events[k].hex) = MAX_HEX_RECORD_LEN
    /\ \E k \in 1..Len(events) :
          /\ events[k].type = "TextEvent"
          /\ Len(events[k].label) = 1

(***************************************************************************)
(* Vocabulary of the encoder's properties.                                 *)
(***************************************************************************)
\* "0123456789ABCDEF"
UpperHexDigits == <<48, 49, 50, 51, 52, 53, 54, 55, 56, 57, 65, 66, 67, 68, 69, 70>>

\* Two uppercase hex characters per byte, most-significant nibble first.
UpperHex(bytes) ==
    Flatten([k \in 1..Len(bytes) |->
               <<UpperHexDigits[(bytes[k] \div 16) + 1],
                 UpperHexDigits[(bytes[k] % 16) + 1]>>])

\* [id low byte, id high byte, 0x00]
IdBytes(id) == <<id % 256, id \div 256, 0>>

Called == result # NoResult

(***************************************************************************)
(* C11: for every register id in 0..65535, serialize(get_request(id)) is   *)
(* ':' then '7' then the uppercase ASCII hex of [id low byte, id high      *)
(* byte, 0x00]; for id 0x0100 the result is exactly ":7000100".            *)
(***************************************************************************)
C11_GetRequestEncoding ==
    (Called /\ request.fn = "get_request") =>
        /\ result.exc = ""
        /\ result.bytes = <<COLON, 55>> \o UpperHex(IdBytes(request.value_id))
        /\ request.value_id = 256 =>
              result.bytes = <<58, 55, 48, 48, 48, 49, 48, 48>>

\* The functions alone, were the module to load: get_request and serialize
\* compute the bytes C11 names.
GetRequestBytes ==
    request.fn = "get_request" =>
        LET r == get_request(request.value_id)
        IN  /\ r.exc = ""
            /\ serialize(r.value) = <<COLON, 55>> \o UpperHex(IdBytes(request.value_id))
            /\ request.value_id = 256 =>
                  serialize(r.value) = <<58, 55, 48, 48, 48, 49, 48, 48>>

(***************************************************************************)
(* C12: for every register id in 0..65535 and every value, the serialized  *)
(* request is ':' then the tag of its kind ('8' when built by set_request, *)
(* 'A' when built by async_request) then the uppercase ASCII hex of the    *)
(* payload [id low byte, id high byte, 0x00] followed by the value bytes.  *)
(***************************************************************************)
KindTag(fn) == IF fn = "set_request" THEN 56 ELSE 65

C12_SetAsyncEncoding ==
    (Called /\ request.fn \in {"set_request", "async_request"}) =>
        /\ result.exc = ""
        /\ result.bytes = <<COLON, KindTag(request.fn)>>
                            \o UpperHex(IdBytes(request.value_id) \o request.value)

\* The functions alone, were the module to load: set_request and serialize
\* compute the bytes C12 names.
SetRequestBytes ==
    request.fn = "set_request" =>
        LET r == set_request(request.value_id, request.value)
        IN  /\ r.exc = ""
            /\ serialize(r.value) = <<COLON, 56>>
                   \o UpperHex(IdBytes(request.value_id) \o request.value)

\* The same for async_request: violated, its request is a SetRequest and
\* carries the tag '8'.
AsyncRequestBytes ==
    request.fn = "async_request" =>
        LET r == async_request(request.value_id, request.value)
        IN  /\ r.exc = ""
            /\ serialize(r.value) = <<COLON, 65>>
                   \o UpperHex(IdBytes(request.value_id) \o request.value)

(***************************************************************************)
(* C13: for every request, serialize returns exactly 2 + 2*n bytes, n the  *)
(* payload length (0 without payload): ':', the kind tag, then two         *)
(* uppercase hex characters per payload byte, most-significant nibble      *)
(* first.  Ping, AppVersion, ProductId and Restart serialize to ':' and    *)
(* their tag ('1', '3', '4', '6'), and no output ends with a newline or a  *)
(* checksum.                                                               *)
(***************************************************************************)
\* The payload the call c asks for.
PayloadOf(c) ==
    IF c.fn = "get_request" THEN IdBytes(c.value_id)
    ELSE IF c.fn \in {"set_request", "async_request"}
         THEN IdBytes(c.value_id) \o c.value
         ELSE <<>>

PayloadlessTag(fn) ==
    CASE fn = "ping_request"        -> 49
      [] fn = "app_version_request" -> 51
      [] fn = "product_id_request"  -> 52
      [] fn = "restart_request"     -> 54

Payloadless ==
    {"ping_request", "app_version_request", "product_id_request", "restart_request"}

\* bytes is the serialization of a request of call c.
WellSerialized(c, bytes) ==
    /\ Len(bytes) = 2 + 2 * Len(PayloadOf(c))
    /\ bytes[1] = COLON
    /\ bytes[2] \in {49, 51, 52, 54, 55, 56, 65}
    /\ SubSeq(bytes, 3, Len(bytes)) = UpperHex(PayloadOf(c))
    /\ c.fn \in Payloadless => bytes = <<COLON, PayloadlessTag(c.fn)>>
    /\ bytes[Len(bytes)] # LF

C13_SerializeLayout ==
    Called => (result.exc = "" /\ WellSerialized(request, result.bytes))

\* The functions alone, were the module to load: every factory's request
\* serializes to the layout C13 names.
SerializeLayoutOfFunctions ==
    LET r == Build(request)
    IN  r.exc = "" /\ WellSerialized(request, serialize(r.value))

(***************************************************************************)
(* C19: for every register id in 0..65535 and every value,                 *)
(* get_request(id).value_id = id, set_request(id, v).value_id = id,        *)
(* set_request(id, v).value = v, and the third byte of the payload (the    *)
(* reserved flags byte) is always 0.                                       *)
(***************************************************************************)
\* obj is a request that gives back the arguments of call c.
RoundTrips(c, obj) ==
    /\ obj.payload # None
    /\ request_value_id(obj) = c.value_id
    /\ c.fn # "get_request" => request_value(obj) = c.value
    /\ Len(obj.payload[1]) >= 3
    /\ obj.payload[1][3] = 0

C19_RequestRoundTrip ==
    (Called /\ request.fn \in {"get_request", "set_request", "async_request"}) =>
        (result.exc = "" /\ RoundTrips(request, result.request))

\* The functions alone, were the module to load: the factories' requests
\* give back their arguments.
RoundTripOfFunctions ==
    request.fn \in {"get_request", "set_request", "async_request"} =>
        LET r == Build(request)
        IN  r.exc = "" /\ RoundTrips(request, r.value)

(***************************************************************************)
(* C14: after a HexMessage is emitted on '\n' in the Hex state the decoder *)
(* is idle for the following non-':' bytes: they are not appended and a    *)
(* further '\n' emits no second HexMessage until a ':' restarts capture.   *)
(* Hence the number of HexMessages is at most the number of ':' bytes      *)
(* received, and each HexMessage's bytes are the input bytes between the   *)
(* most recent ':' and the '\n' that ended it.                             *)
(***************************************************************************)
HexEvents == {k \in 1..Len(events) : events[k].type = "HexEvent"}
ColonsUpTo(pos) == {p \in 1..pos : stream[p] = COLON}

\* The position of the last ':' before position pos, 0 when there is none.
LastColon(pos) ==
    LET cs == ColonsUpTo(pos - 1)
    IN  IF cs = {} THEN 0 ELSE CHOOSE p \in cs : \A q \in cs : q <= p

C14_HexMessagePerColon ==
    /\ Cardinality(HexEvents) <= Cardinality(ColonsUpTo(gen.i))
    /\ \A k \in HexEvents :
          events[k].hex = SubSeq(stream, LastColon(event_at[k]) + 1, event_at[k] - 1)

(***************************************************************************)
(* C15: hex-record bytes never change the text-frame checksum.  A byte     *)
(* processed in the Hex state, and the ':' that switches to Hex, leave the *)
(* running checksum as it is; a byte processed in any other state (Idle,   *)
(* Label, Value, Checksum) adds its value to the running sum (in the       *)
(* Checksum state the sum with that byte decides FrameEnd.valid and is     *)
(* then reset).  Stated of every call that feeds one byte.                 *)
(***************************************************************************)
\* This step runs a receive_bytes call of one byte to its end or its yield.
OneByteStep ==
    /\ gen.status = "created"
    /\ gen.hi = gen.lo + 1
    /\ gen'.status # "created"

C15_HexBytesNotSummed ==
    [][OneByteStep =>
         LET byte == stream[gen.hi]
         IN  IF parser.state = "RECORD_HEX"
                \/ (byte = COLON /\ parser.state # "CHECKSUM")
             THEN parser'.checksum = parser.checksum
             ELSE IF parser.state = "CHECKSUM"
                  THEN /\ events' = Append(events,
                              FrameEndEvent((parser.checksum + byte) % 256 = 0))
                       /\ parser'.checksum = 0
                  ELSE parser'.checksum = parser.checksum + byte]_vars

\* A ':' and a further byte have been taken one at a time after text bytes
\* that were summed.
C15_Witness ==
    /\ parser.state = "RECORD_HEX"
    /\ parser.current_index > 0
    /\ parser.checksum > 0
    /\ gen.hi = gen.lo + 1
    /\ gen.status = "exhausted"
    /\ raised = <<>>

(***************************************************************************)
(* C16: a ':' received in the Checksum state is consumed as the checksum   *)
(* byte: it is added to the running sum, exactly one FrameEnd is emitted,  *)
(* the sum is reset to 0 and the decoder goes to Idle; hex capture does    *)
(* not start.  In every other state a ':' switches the decoder to Hex with *)
(* the record index reset to 0.  Stated of every call that feeds one ':'.  *)
(***************************************************************************)
C16_ColonInChecksum ==
    [][(OneByteStep /\ stream[gen.hi] = COLON) =>
         IF parser.state = "CHECKSUM"
         THEN /\ events' = Append(events,
                     FrameEndEvent((parser.checksum + COLON) % 256 = 0))
              /\ parser'.checksum = 0
              /\ parser'.state = "IDLE"
              /\ parser'.current_index = parser.current_index
              /\ parser'.hex_buf = parser.hex_buf
         ELSE /\ events' = events
              /\ parser'.state = "RECORD_HEX"
              /\ parser'.current_index = 0
              /\ parser'.checksum = parser.checksum]_vars

\* The frame whose checksum byte is ':' has been fed byte by byte: the ':'
\* ended it with FrameEnd(true), and the '7' and '\n' after it started no
\* hex record.
C16_Witness ==
    /\ scenario = <<Raw(ColonChecksumFrame)>>
    /\ Done
    /\ gen.hi = gen.lo + 1
    /\ Len(events) = 2
    /\ events[2] = FrameEndEvent(TRUE)
    /\ stream[event_at[2]] = COLON
    /\ parser.state = "RECORD_LABEL"

(***************************************************************************)
(* C17: decoder instances share no state.  For two decoders fed two byte   *)
(* streams in any interleaving of receive_bytes calls, each decoder's      *)
(* events and state are those it produces when fed its stream alone.       *)
(***************************************************************************)
C17_NoSharedState ==
    \A d \in DOMAIN decoders :
        /\ Deref(decoders[d].self, heap) = decoders[d].alone.self
        /\ decoders[d].events = decoders[d].alone.events

\* Both generators are in flight at once, each suspended at the event of
\* its own stream, with different bytes in the two label buffers.
C17_Witness ==
    /\ decoders # <<>>
    /\ \A d \in DOMAIN decoders :
          /\ decoders[d].gen.status = "suspended"
          /\ Len(decoders[d].events) = 1
    /\ decoders[1].events[1] = TextEvent(<<86>>, <<48>>)
    /\ decoders[2].events[1] = TextEvent(<<97, 98>>, <<49, 50>>)

(***************************************************************************)
(* C18: the decoder state advances only as the sequence receive_bytes      *)
(* returned is consumed.  A call whose sequence is never iterated leaves   *)
(* the state unchanged, and when the caller stops after k events the state *)
(* is the one in which the input bytes up to and including the byte of the *)
(* k-th event, and no others, have been applied.  Stated of the first call *)
(* on a fresh decoder.                                                     *)
(***************************************************************************)
\* The caller has stopped iterating the first call's sequence.
Stopped == gen.status = "closed" /\ gen.lo = 0

\* The decoder after the first n stream bytes have been applied.
Applied(n) == Drain(VEDirectParser, SubSeq(stream, 1, n)).self

C18_StateFollowsConsumption ==
    Stopped => parser = Applied(gen.i)

\* What holds instead: the state is the applied one but for the statements
\* after the yield of a TextEvent, which have not run.
StoppedBeforeReset ==
    Stopped => AfterYield(parser, gen.at_yield) = Applied(gen.i)

\* A sequence that is never iterated leaves the decoder as constructed.
NeverIterated ==
    (Stopped /\ gen.i = 0 /\ events = <<>>) => parser = VEDirectParser

=============================================================================
